---- MODULE Spec2Model ----
(***************************************************************************)
(* Model of the audit orchestration pipeline of UXMaturityAnalysis:        *)
(* UXAnalysisOrchestrator (main.py) driving capture, the two-pass          *)
(* analysis, the retry phase, and scripts/reanalyze_screenshots.py.        *)
(*                                                                         *)
(* The capture collaborator and the model collaborator are environment:    *)
(* every value they can hand back is an input chosen with \E.  The disk    *)
(* (one folder per competitor) is state, and may hold files of an earlier  *)
(* run of the same date and audit type, because                            *)
(* create_audit_directory_structure only ever mkdir(exist_ok=True)s.       *)
(***************************************************************************)
EXTENDS Integers, Sequences, FiniteSets, TLC

\* ---------------------------------------------------------------- bounds
NumCompetitors == 3

\* How often, in one run, a collaborator or the operator may depart from the
\* plain path (a failed or blocked capture, an answer other than yes, a
\* failed model call, an interrupt).
MaxFaults == 2

Competitors == 1..NumCompetitors

\* The viewport files the retry phase looks for (main.py:299-302).
Viewports == {"desktop", "mobile"}

\* One reason string _check_if_blocked can report (screenshot_capture.py:180).
BlockReasons == {"Cloudflare challenge"}

\* What observation.json can hold when an attempt opens it (main.py:412-419):
\*   absent      no file
\*   ok          a JSON object
\*   malformed   json.load raises JSONDecodeError
\*   nondict     valid JSON that is no object (null, a list, ...)
\*   undecodable bytes that are no text: read raises UnicodeDecodeError
CacheKinds == {"absent", "ok", "malformed", "nondict", "undecodable"}

NoFile == [kind |-> "absent", id |-> 0]

\* ------------------------------------------------------------ state
VARIABLES
    prog,               \* entry point: "main", "reanalyze" or "direct"
    manual_mode,        \* UXAnalysisOrchestrator.manual_mode
    force,              \* reanalyze_audit(force=...)
    force_observe,      \* reanalyze_audit(force_observe=...)
    pc,                 \* position of the single control flow
    i,                  \* loop index of the loop pc is in
    cur,                \* screenshot_results awaiting the operator's answer
    shots,              \* per competitor: viewport files in its folder
    obsFile,            \* per competitor: observation.json
    anaFile,            \* per competitor: analysis.json
    captured_data,      \* analyze_competitors: captured_data
    processed_results,  \* analyze_competitors: processed_results
    results,            \* analyze_competitors: results
    failed,             \* _retry_failed_competitors: failed
    retry_results,      \* _retry_failed_competitors: retry_results
    skipped_failures,   \* _retry_failed_competitors: skipped_failures
    capCalls,           \* history: capture collaborator calls per competitor
    obsCalls,           \* history: observation collaborator calls
    scoreCalls,         \* history: scoring collaborator calls
    capturedOk,         \* history: some viewport capture succeeded this run
    blockedSeen,        \* history: what _check_if_blocked reported, or "none"
    last,               \* history: the latest analysis attempt
    faults,             \* history: departures from the plain path so far
    slept,              \* history: seconds the loop slept before the latest attempt
    minuteTokens,       \* history: max_tokens of the model calls of the last minute
    args_urls,          \* main(): args.urls
    competitors,        \* main(): competitors
    audit_structure,    \* create_audit_directory_structure: competitor_paths
    debug_malformed_json, \* files of output/debug_malformed_json, by site
    audit_runs,         \* the runs started so far, the current one last
    report_files        \* run-level files: path -> the run that wrote it last

vars == <<prog, manual_mode, force, force_observe, pc, i, cur, shots, obsFile,
          anaFile, captured_data, processed_results, results, failed,
          retry_results, skipped_failures, capCalls, obsCalls, scoreCalls,
          capturedOk, blockedSeen, last, faults, slept, minuteTokens,
          args_urls, competitors, audit_structure, debug_malformed_json,
          audit_runs, report_files>>

disk == <<shots, obsFile, anaFile>>
lists == <<captured_data, processed_results, results, failed, retry_results,
           skipped_failures>>
hist == <<capCalls, obsCalls, scoreCalls, capturedOk, blockedSeen, last, slept,
          minuteTokens>>
flags == <<prog, manual_mode, force, force_observe, args_urls, competitors,
           audit_structure, debug_malformed_json, audit_runs, report_files>>

\* The environment departs from the plain path n more times.
Spend(n) == /\ faults + n <= MaxFaults
            /\ faults' = faults + n

\* ------------------------------------------------------------ records
\* One outcome dict.  Keys a Python dict lacks are "none"/FALSE/0 here.
Outcome(site, success, msg, arg, blocked, skipped, obsRef, obsId, scoreId) ==
    [site |-> site, success |-> success, error |-> <<msg, arg>>,
     blocked |-> blocked, skipped |-> skipped,
     observation_file |-> obsRef, obsId |-> obsId, scoreId |-> scoreId,
     \* main.py:509-516: no key 'competitor_root' is ever set
     competitor_root |-> "none"]

Failure(site, msg, arg) ==
    Outcome(site, FALSE, msg, arg, FALSE, FALSE, "none", 0, 0)

NoAttempt == [site |-> 0, phase |-> "none"]

\* Filter of a sequence, in order ([r for r in xs if P(r)]).
RECURSIVE SelectSeqBy(_, _)
SelectSeqBy(xs, keep) ==
    IF xs = <<>> THEN <<>>
    ELSE (IF Head(xs).success = keep THEN <<Head(xs)>> ELSE <<>>)
         \o SelectSeqBy(Tail(xs), keep)


\* ------------------------------------------------- capture collaborator
\* One entry of screenshot_results, as main.py:152-163 reads it:
\* r.get("success"), r.get("blocked"), r.get("block_reason").  Neither
\* capture_with_interaction nor load_screenshots_from_directory ever sets
\* 'blocked' or 'block_reason' in an entry, so .get() finds nothing.
VResult(vp, ok) ==
    [viewport |-> vp, success |-> ok, blocked |-> FALSE, block_reason |-> "none"]

\* The one-element failure list: input cancelled or an exception in
\* capture_with_interaction (screenshot_capture.py:485-492, 545-552), a
\* missing directory in manual mode (screenshot_capture.py:606-612).
SingleFailure == << VResult("unknown", FALSE) >>

\* What _check_if_blocked can report to capture_with_interaction before the
\* operator is asked to press Enter (screenshot_capture.py:453-465): "none",
\* or the reason of a detected bot block.  The report is printed only.
BlockChecks == {"none"} \cup BlockReasons

\* capture_with_interaction (screenshot_capture.py:374-555): one success per
\* viewport, each file written as <viewport>.png, or the one-element failure
\* list; an exception between the two screenshots leaves desktop.png behind.
InteractiveCaptures ==
    { [results |-> <<VResult("desktop", TRUE), VResult("mobile", TRUE)>>,
       written |-> Viewports],
      [results |-> SingleFailure, written |-> {}],
      [results |-> SingleFailure, written |-> {"desktop"}] }

\* load_screenshots_from_directory (screenshot_capture.py:571-653): per
\* viewport a file of the operator's directory is found or not; nothing is
\* written to the competitor's folder.
ManualCaptures ==
    { [results |-> <<VResult("desktop", d), VResult("mobile", m)>>,
       written |-> {}] : d \in BOOLEAN, m \in BOOLEAN }
    \cup { [results |-> SingleFailure, written |-> {}] }

RECURSIVE SelectResults(_, _)
SelectResults(rs, ok) ==
    IF rs = <<>> THEN <<>>
    ELSE (IF Head(rs).success = ok THEN <<Head(rs)>> ELSE <<>>)
         \o SelectResults(Tail(rs), ok)

RECURSIVE SelectBlocked(_)
SelectBlocked(rs) ==
    IF rs = <<>> THEN <<>>
    ELSE (IF Head(rs).blocked THEN <<Head(rs)>> ELSE <<>>)
         \o SelectBlocked(Tail(rs))

\* main.py:165-176, the return when no viewport succeeded.
CaptureFailure(site, rs) ==
    LET blocked_captures == SelectBlocked(SelectResults(rs, FALSE))
    IN  IF blocked_captures # <<>>
        THEN Outcome(site, FALSE, "Site blocked by bot detection: ",
                     blocked_captures[1].block_reason, TRUE, FALSE, "none", 0, 0)
        ELSE Outcome(site, FALSE, "All screenshot captures failed", "",
                     FALSE, FALSE, "none", 0, 0)

\* main.py:212-219, the capture data handed to the analysis phase.
CaptureSuccess(site) ==
    Outcome(site, TRUE, "", "", FALSE, FALSE, "none", 0, 0)

\* main.py:195-201.
SkippedByUser(site) ==
    Outcome(site, FALSE, "Skipped by user", "", FALSE, TRUE, "none", 0, 0)

\* ------------------------------------------- analyze_competitor_from_screenshots
\* str(observation_path): the path of observation.json under the
\* competitor's root (main.py:396, 498).
ObservationPath == "comp_root/observation.json"

\* main.py:404-408.  pathKnown: competitor_paths was in capture_data;
\* skip: capture_data.get('_skip_observe', True).
UseExisting(pathKnown, exists, skip) == pathKnown /\ exists /\ skip

\* main.py:498.
ObservationRef(pathKnown) == IF pathKnown THEN ObservationPath ELSE "none"

\* A variant of ScoreInvoked that calls pass 2 whatever became of pass 1.
ScoreRegardless(obtained, analysisExists) == TRUE

\* A variant of ScoreInvoked that lets a stored analysis.json stand in for
\* pass 2.
ScoreUnlessStored(obtained, analysisExists) == obtained /\ ~analysisExists

\* main.py:476: pass 2 is called whenever an observation was obtained;
\* nothing looks at analysis.json first.
ScoreInvoked(obtained, analysisExists) == obtained

\* A variant of ObservationFileAfter that clears the file before pass 1 and
\* so loses it when nothing is saved.
ObservationFileCleared(saved, cache, obsId) ==
    IF saved THEN [kind |-> "ok", id |-> obsId] ELSE [kind |-> "absent", id |-> 0]

\* main.py:443-448: observation.json is opened for writing only once pass 1
\* has returned a success; on every other path it is not touched.
ObservationFileAfter(saved, cache, obsId) ==
    IF saved THEN [kind |-> "ok", id |-> obsId] ELSE cache

\* One call of analyze_competitor_from_screenshots (main.py:374-526).
\*   cache, ana        observation.json and analysis.json as found
\*   obsOut, scoreOut  what the model collaborator answers if it is called
\*   nObs, nScore      calls made so far for this competitor (fresh ids)
\* The result names the outcome dict, the files as left, and what was called.
Attempt(site, phase, pathKnown, skip, cache, ana, obsOut, scoreOut, nObs, nScore) ==
    LET exists == cache.kind # "absent"
        use0 == UseExisting(pathKnown, exists, skip)
        \* open()/json.load: UnicodeDecodeError is neither JSONDecodeError nor
        \* OSError, so it leaves through the outer except (main.py:519).
        readRaises == use0 /\ cache.kind = "undecodable"
        \* JSONDecodeError sets use_existing = False (main.py:415-419).
        use1 == use0 /\ cache.kind \in {"ok", "nondict"}
        runObserve == ~readRaises /\ ~use1
        fresh == runObserve /\ obsOut = "ok"
        obsFailed == runObserve /\ obsOut # "ok"
        saved == fresh /\ pathKnown
        obsId == IF fresh THEN nObs + 1 ELSE IF use1 THEN cache.id ELSE 0
        \* observation.get on a value that is no dict: AttributeError,
        \* caught by the outer except (main.py:455, 519).
        notDict == use1 /\ cache.kind = "nondict"
        obtained == (fresh \/ use1) /\ ~notDict
        scoreCalled == ScoreInvoked(obtained, ana.present)
        scored == obtained /\ (scoreCalled => scoreOut = "ok")
        scoreId == IF scoreCalled THEN nScore + 1 ELSE ana.scoreId
        ref == ObservationRef(pathKnown)
        out == IF readRaises THEN Failure(site, "UnicodeDecodeError", "")
               ELSE IF obsFailed
                    THEN Failure(site, "Pass 1 observation failed: ", "observe error")
               ELSE IF notDict THEN Failure(site, "AttributeError", "")
               ELSE IF ~scored THEN Failure(site, "scoring error", "")
               ELSE Outcome(site, TRUE, "", "", FALSE, FALSE, ref, obsId, scoreId)
    IN  [out |-> out,
         obsFile |-> ObservationFileAfter(saved, cache, obsId),
         anaFile |-> IF scored /\ pathKnown
                     THEN [present |-> TRUE, observation_file |-> ref,
                           scoreId |-> scoreId,
                           competitor_root |-> out.competitor_root]
                     ELSE ana,
         observeCalled |-> runObserve,
         scoreCalled |-> scoreCalled,
         log |-> [site |-> site, phase |-> phase, pathKnown |-> pathKnown,
                  skip |-> skip, cache |-> cache, anaBefore |-> ana.present,
                  usedCache |-> use1, obtained |-> obtained,
                  observeCalled |-> runObserve,
                  observeOk |-> fresh, saved |-> saved,
                  scoreCalled |-> scoreCalled, success |-> out.success,
                  observation_file |-> out.observation_file,
                  competitor_root |-> out.competitor_root,
                  obsId |-> out.obsId]]

\* report_generator.save_competitor_analysis: the result dict is dumped to
\* analysis.json (report_generator.py:63-85).
SavedAnalysis(out) ==
    [present |-> TRUE, observation_file |-> out.observation_file,
     scoreId |-> out.scoreId, competitor_root |-> out.competitor_root]

NoAnalysis ==
    [present |-> FALSE, observation_file |-> "none", scoreId |-> 0,
     competitor_root |-> "none"]

OldAnalysis ==
    [present |-> TRUE, observation_file |-> ObservationPath, scoreId |-> 0,
     competitor_root |-> "none"]

\* ------------------------------------------------------------ Init
\* What an earlier run of the same date and audit type can have left in a
\* competitor's folder.
PriorFolders ==
    { [shots |-> {}, obs |-> "absent", ana |-> NoAnalysis],
      [shots |-> Viewports, obs |-> "ok", ana |-> OldAnalysis],
      [shots |-> Viewports, obs |-> "ok", ana |-> NoAnalysis],
      [shots |-> Viewports, obs |-> "absent", ana |-> NoAnalysis],
      [shots |-> Viewports, obs |-> "malformed", ana |-> NoAnalysis],
      [shots |-> Viewports, obs |-> "nondict", ana |-> OldAnalysis],
      [shots |-> Viewports, obs |-> "undecodable", ana |-> NoAnalysis],
      [shots |-> {}, obs |-> "ok", ana |-> OldAnalysis] }

\* Every folder is found as the earlier run, if any, left it.
InitDisk ==
    \E p \in PriorFolders :
        /\ shots = [c \in Competitors |-> p.shots]
        /\ obsFile = [c \in Competitors |-> [kind |-> p.obs, id |-> 0]]
        /\ anaFile = [c \in Competitors |-> p.ana]

Init ==
    /\ prog \in {"main", "reanalyze", "direct"}
    /\ manual_mode \in (IF prog = "main" THEN BOOLEAN ELSE {FALSE})
    /\ force \in (IF prog = "reanalyze" THEN BOOLEAN ELSE {FALSE})
    /\ force_observe \in (IF prog = "reanalyze" THEN BOOLEAN ELSE {FALSE})
    /\ pc = (IF prog = "main" THEN "capture"
             ELSE IF prog = "reanalyze" THEN "classify" ELSE "call")
    /\ i = 1
    /\ cur = <<>>
    /\ InitDisk
    /\ captured_data = <<>>
    /\ processed_results = <<>>
    /\ results = <<>>
    /\ failed = <<>>
    /\ retry_results = <<>>
    /\ skipped_failures = <<>>
    /\ capCalls = [c \in Competitors |-> 0]
    /\ obsCalls = [c \in Competitors |-> 0]
    /\ scoreCalls = [c \in Competitors |-> 0]
    /\ capturedOk = [c \in Competitors |-> FALSE]
    /\ blockedSeen = [c \in Competitors |-> "none"]
    /\ last = NoAttempt
    /\ faults = 0
    /\ slept = 0
    /\ minuteTokens = 0
    /\ args_urls = <<>>
    /\ competitors = <<>>
    /\ audit_structure = [n \in {} |-> n]
    /\ debug_malformed_json = {}
    /\ audit_runs = <<>>
    /\ report_files = [f \in {} |-> f]

\* ------------------------------------------------ phase 1: capture
\* A variant of AfterCapture that takes a capture with a successful viewport
\* as it is, in either mode.
CapturedUnasked(ok, manual) == IF ~ok THEN "failed" ELSE "captured"

\* main.py:163-184 and 206-209: with no successful viewport the competitor
\* has failed; otherwise manual mode is done and interactive mode asks the
\* operator.
AfterCapture(ok, manual) ==
    IF ~ok THEN "failed" ELSE IF manual THEN "captured" ELSE "prompt"

\* One pass of the while loop of capture_competitor_screenshots up to its
\* first suspension point after the capture (main.py:128-182): the
\* collaborator returns, and with no successful viewport the competitor's
\* failure is appended to captured_data (main.py:578).
CaptureCall ==
    /\ prog = "main" /\ pc = "capture" /\ i <= NumCompetitors
    /\ \E cap \in (IF manual_mode THEN ManualCaptures ELSE InteractiveCaptures),
          check \in (IF manual_mode THEN {"none"} ELSE BlockChecks) :
         LET rs == cap.results
             ok == SelectResults(rs, TRUE) # <<>>
         IN
         /\ Spend(IF SelectResults(rs, FALSE) = <<>> /\ check = "none"
                  THEN 0 ELSE 1)
         /\ capCalls' = [capCalls EXCEPT ![i] = @ + 1]
         /\ shots' = [shots EXCEPT ![i] = @ \cup cap.written]
         /\ capturedOk' = [capturedOk EXCEPT ![i] = @ \/ ok]
         /\ blockedSeen' = [blockedSeen EXCEPT ![i] = check]
         /\ IF AfterCapture(ok, manual_mode) = "failed"
            THEN /\ captured_data' = Append(captured_data, CaptureFailure(i, rs))
                 /\ i' = i + 1
                 /\ UNCHANGED <<pc, cur>>
            ELSE IF AfterCapture(ok, manual_mode) = "captured"
            THEN /\ captured_data' = Append(captured_data, CaptureSuccess(i))
                 /\ i' = i + 1
                 /\ UNCHANGED <<pc, cur>>
            ELSE /\ pc' = "prompt"
                 /\ cur' = rs
                 /\ UNCHANGED <<captured_data, i>>
    /\ UNCHANGED <<flags, obsFile, anaFile, processed_results, results, failed,
                   retry_results, skipped_failures, obsCalls, scoreCalls, last,
                   slept, minuteTokens>>

\* sys.exit(0) of main.py:1072: what the process held in memory is gone.
Forget ==
    /\ i' = 0
    /\ cur' = <<>>
    /\ captured_data' = <<>>
    /\ processed_results' = <<>>
    /\ results' = <<>>
    /\ failed' = <<>>
    /\ retry_results' = <<>>
    /\ skipped_failures' = <<>>

\* The operator's answer to "Continue? ([Y]es / [r]etry / [s]kip)"
\* (main.py:184-206).  EOFError is re-raised inside the try of main.py:108
\* and is an Exception, so main.py:221 turns it into a failure of this
\* competitor; KeyboardInterrupt is not, and ends the run (main.py:1069).
OperatorAnswer ==
    /\ prog = "main" /\ pc = "prompt"
    /\ \E answer \in {"y", "r", "s", "other", "eof", "interrupt"} :
         /\ Spend(IF answer \in {"y", "other"} THEN 0 ELSE 1)
         /\ IF answer = "interrupt"
            THEN /\ pc' = "cancelled"
                 /\ Forget
            ELSE IF answer = "other"
            \* main.py:202-203: asked again, nothing else happens
            THEN UNCHANGED <<pc, i, cur, lists>>
            ELSE /\ pc' = "capture"
                 /\ i' = IF answer = "r" THEN i ELSE i + 1
                 /\ captured_data' =
                      IF answer = "y" THEN Append(captured_data, CaptureSuccess(i))
                      ELSE IF answer = "s" THEN Append(captured_data, SkippedByUser(i))
                      ELSE IF answer = "eof"
                           THEN Append(captured_data, Failure(i, "EOFError", ""))
                      ELSE captured_data
                 /\ cur' = <<>>
                 /\ UNCHANGED <<processed_results, results, failed,
                                retry_results, skipped_failures>>
    /\ UNCHANGED <<flags, disk, hist>>

\* ------------------------------------------------ phase 2: analysis
\* A variant of successful_captures in which one failed capture keeps every
\* capture from the analysis phase.
NoneAfterFailedCapture ==
    IF SelectSeqBy(captured_data, FALSE) # <<>> THEN <<>>
    ELSE SelectSeqBy(captured_data, TRUE)

\* A variant of failed_captures that loses the failed captures.
NoFailedCaptures == <<>>

\* main.py:589-590.
successful_captures == SelectSeqBy(captured_data, TRUE)
failed_captures == SelectSeqBy(captured_data, FALSE)

\* main.py:661-664: with a failure in the list the retry prompt is shown.
AfterResults(rs) == IF SelectSeqBy(rs, FALSE) # <<>> THEN "retry_prompt" ELSE "done"

\* main.py:580-601 and 655-657: captures are over.
BeginAnalysis ==
    /\ prog = "main" /\ pc = "capture" /\ i = NumCompetitors + 1
    /\ i' = 1
    /\ processed_results' = <<>>
    /\ IF successful_captures # <<>>
       THEN /\ pc' = "analyze"
            /\ UNCHANGED <<results, failed>>
       ELSE /\ results' = failed_captures
            /\ failed' = SelectSeqBy(failed_captures, FALSE)
            /\ pc' = AfterResults(failed_captures)
    /\ UNCHANGED <<flags, cur, disk, captured_data, retry_results,
                   skipped_failures, hist, faults>>

\* main.py:594 and main.py:280: the seconds slept after an attempt that is
\* not the last of its loop.
ANALYSIS_DELAY == 90
RETRY_DELAY == 60

\* main.py:641-644: the sleep follows every analysis but the last, so every
\* analysis but the first starts after it.
SleptBeforeAnalysis(idx) == IF idx > 1 THEN ANALYSIS_DELAY ELSE 0

\* main.py:354-357: the same for the retries; a competitor skipped for want
\* of screenshots costs no sleep (main.py:306-309).
SleptBeforeRetry(retried) == IF retried # <<>> THEN RETRY_DELAY ELSE 0

\* claude_analyzer.py:349 and claude_analyzer.py:506: max_tokens of the
\* observation call and of the scoring call; main.py:592: the output-token
\* rate limit the delays are meant to respect.
MAX_TOKENS_OBSERVE == 3000
MAX_TOKENS_SCORE == 6000
QUOTA_PER_MINUTE == 8000

\* How the time passes around the calls of one attempt: "quick", the operator
\* and the model answer within seconds; "slow", a minute or more passes
\* before each call of the attempt.
Paces == {"quick", "slow"}

\* The max_tokens of the model calls issued within the minute that ends with
\* the latest call of an attempt.  before: the same sum before the attempt;
\* sleptNow: the seconds slept since the attempt before it.
Budgeted(before, sleptNow, pace, observeCalled, scoreCalled) ==
    LET obs == IF observeCalled THEN MAX_TOKENS_OBSERVE ELSE 0
        score == IF scoreCalled THEN MAX_TOKENS_SCORE ELSE 0
        carried == IF sleptNow >= 60 \/ pace = "slow" THEN 0 ELSE before
    IN  IF pace = "slow" THEN (IF scoreCalled THEN score ELSE obs)
        ELSE carried + obs + score

\* What the model collaborator can answer: a usable payload, or an explicit
\* failure (unparseable payload, quota or rate-limit error, any API error:
\* claude_analyzer.py:372-379, 556-579).
ModelAnswers == {"ok", "fail"}

Failures(obsOut, scoreOut) ==
    (IF obsOut = "fail" THEN 1 ELSE 0) + (IF scoreOut = "fail" THEN 1 ELSE 0)

\* One iteration of the analysis loop (main.py:603-644): the attempt, the
\* append, and the save of a successful result to analysis.json.
AnalyzeCompetitor ==
    /\ prog = "main" /\ pc = "analyze" /\ i <= Len(successful_captures)
    /\ \E obsOut \in ModelAnswers, scoreOut \in ModelAnswers, pace \in Paces :
         LET c == successful_captures[i].site
             a == Attempt(c, "main", TRUE, TRUE, obsFile[c], anaFile[c],
                          obsOut, scoreOut, obsCalls[c], scoreCalls[c])
         IN  /\ Spend(Failures(obsOut, scoreOut))
             /\ minuteTokens' = Budgeted(minuteTokens, SleptBeforeAnalysis(i),
                                         pace, a.observeCalled, a.scoreCalled)
             /\ processed_results' = Append(processed_results, a.out)
             /\ obsFile' = [obsFile EXCEPT ![c] = a.obsFile]
             /\ anaFile' = [anaFile EXCEPT ![c] =
                              IF a.out.success THEN SavedAnalysis(a.out)
                              ELSE a.anaFile]
             /\ obsCalls' = [obsCalls EXCEPT ![c] =
                               IF a.observeCalled THEN @ + 1 ELSE @]
             /\ scoreCalls' = [scoreCalls EXCEPT ![c] =
                                 IF a.scoreCalled THEN @ + 1 ELSE @]
             /\ last' = a.log
    /\ slept' = SleptBeforeAnalysis(i)
    /\ i' = i + 1
    /\ UNCHANGED <<flags, pc, cur, shots, captured_data, results, failed,
                   retry_results, skipped_failures, capCalls, capturedOk,
                   blockedSeen>>

\* main.py:646-664: the loop is over, results are put together and the
\* retry phase is entered when one of them failed.
FinishAnalysis ==
    /\ prog = "main" /\ pc = "analyze" /\ i = Len(successful_captures) + 1
    /\ LET rs == failed_captures \o processed_results
       IN  /\ results' = rs
           /\ failed' = SelectSeqBy(rs, FALSE)
           /\ pc' = AfterResults(rs)
    /\ i' = 1
    /\ UNCHANGED <<flags, cur, disk, captured_data, processed_results,
                   retry_results, skipped_failures, hist, faults>>

\* KeyboardInterrupt while the analysis or the retry loop is suspended:
\* re-raised (main.py:649-653), caught by main() (main.py:1069-1072).
Interrupt ==
    /\ prog = "main" /\ pc \in {"analyze", "retry"}
    /\ pc' = "cancelled"
    /\ Forget
    /\ Spend(1)
    /\ UNCHANGED <<flags, disk, hist>>

\* ------------------------------------------------ phase 2.5: retry
\* A variant of AfterRetryPrompt in which the end of input and Ctrl-C
\* cancel the run.
CancelWithoutAnswer(answer) ==
    IF answer = "y" THEN "retry"
    ELSE IF answer = "n" THEN "done" ELSE "cancelled"

\* main.py:262-270: '', 'y' and 'yes' start the retry loop; every other
\* answer, EOFError and KeyboardInterrupt return the results.
AfterRetryPrompt(answer) == IF answer = "y" THEN "retry" ELSE "done"

\* main.py:261-286: the operator's answer to "Retry failed competitors now?".
\* Anything but '', 'y', 'yes', and EOF or Ctrl-C, returns results as is.
RetryPrompt ==
    /\ prog = "main" /\ pc = "retry_prompt"
    /\ \E answer \in {"y", "n", "eof", "interrupt"} :
         pc' = AfterRetryPrompt(answer)
    /\ i' = 1
    /\ retry_results' = <<>>
    /\ skipped_failures' = <<>>
    /\ UNCHANGED <<flags, cur, disk, captured_data, processed_results, results,
                   failed, hist, faults>>

\* A variant of ScreenshotsExist that is content with one of the files.
AnyScreenshotExists(c) == \E v \in Viewports : v \in shots[c]

\* main.py:304-306: both files must exist in the competitor's folder.
ScreenshotsExist(c) == \A v \in Viewports : v \in shots[c]

\* One iteration of the retry loop (main.py:288-357).  capture_data is built
\* without 'competitor_paths' (main.py:312-317).
RetryCompetitor ==
    /\ prog = "main" /\ pc = "retry" /\ i <= Len(failed)
    /\ LET result == failed[i]
           c == result.site
       IN  IF ~ScreenshotsExist(c)
           THEN /\ skipped_failures' = Append(skipped_failures, result)
                /\ UNCHANGED <<retry_results, obsFile, anaFile, obsCalls,
                               scoreCalls, last, faults, slept,
                               minuteTokens>>
           ELSE \E obsOut \in ModelAnswers, scoreOut \in ModelAnswers,
                   pace \in Paces :
                  LET a == Attempt(c, "retry", FALSE, TRUE, obsFile[c], anaFile[c],
                                   obsOut, scoreOut, obsCalls[c], scoreCalls[c])
                  IN  /\ Spend(Failures(obsOut, scoreOut))
                      /\ minuteTokens' =
                           Budgeted(minuteTokens, SleptBeforeRetry(retry_results),
                                    pace, a.observeCalled, a.scoreCalled)
                      /\ retry_results' = Append(retry_results, a.out)
                      /\ obsFile' = [obsFile EXCEPT ![c] = a.obsFile]
                      /\ anaFile' = [anaFile EXCEPT ![c] =
                                       IF a.out.success THEN SavedAnalysis(a.out)
                                       ELSE a.anaFile]
                      /\ obsCalls' = [obsCalls EXCEPT ![c] =
                                        IF a.observeCalled THEN @ + 1 ELSE @]
                      /\ scoreCalls' = [scoreCalls EXCEPT ![c] =
                                          IF a.scoreCalled THEN @ + 1 ELSE @]
                      /\ last' = a.log
                      /\ slept' = SleptBeforeRetry(retry_results)
                      /\ UNCHANGED skipped_failures
    /\ i' = i + 1
    /\ UNCHANGED <<flags, pc, cur, shots, captured_data, processed_results,
                   results, failed, capCalls, capturedOk, blockedSeen>>

\* A variant of CombineRetry that leaves the skipped failures out.
CombineWithoutSkipped(successful, retried, skipped) == successful \o retried

\* main.py:360.
CombineRetry(successful, retried, skipped) == successful \o retried \o skipped

\* A variant of AfterRetry that offers the retry again while a failure is
\* left.
RetryAgain(rs) == AfterResults(rs)

\* main.py:359-372 and 661-674: the updated list goes back to
\* analyze_competitors, which returns it; no second prompt follows.
AfterRetry(rs) == "done"

\* main.py:359-372: the loop is over, the updated list is returned.
FinishRetry ==
    /\ prog = "main" /\ pc = "retry" /\ i = Len(failed) + 1
    /\ results' = CombineRetry(SelectSeqBy(results, TRUE), retry_results,
                               skipped_failures)
    /\ pc' = AfterRetry(results')
    /\ UNCHANGED <<flags, i, cur, disk, captured_data, processed_results,
                   failed, retry_results, skipped_failures, hist, faults>>

\* ------------------------------------- scripts/reanalyze_screenshots.py
\* In this program shots[c] are the files of <competitor>/screenshots/.
\* competitors_data: the folders holding a screenshot (lines 101-128).
RECURSIVE WithScreenshots(_)
WithScreenshots(c) ==
    IF c > NumCompetitors THEN <<>>
    ELSE (IF shots[c] # {} THEN <<c>> ELSE <<>>) \o WithScreenshots(c + 1)

\* Lines 155-159: the stored analysis stands in for both passes.
ReuseAnalysis(forced, analysisExists) == ~forced /\ analysisExists

\* Lines 157-176: analysis.json as loaded, marked successful.
ExistingAnalysis(c) ==
    Outcome(c, TRUE, "", "", FALSE, FALSE, anaFile[c].observation_file, 0,
            anaFile[c].scoreId)

RECURSIVE Classify(_, _)
Classify(cs, reuse) ==
    IF cs = <<>> THEN <<>>
    ELSE (IF ReuseAnalysis(force, anaFile[Head(cs)].present) = reuse
          THEN <<IF reuse THEN ExistingAnalysis(Head(cs))
                 ELSE CaptureSuccess(Head(cs))>>
          ELSE <<>>) \o Classify(Tail(cs), reuse)

\* The classification loop (lines 150-186): existing_results start the
\* result list, the others wait in needs_analysis (kept in captured_data).
ReanalyzeClassify ==
    /\ prog = "reanalyze" /\ pc = "classify"
    /\ results' = Classify(WithScreenshots(1), TRUE)
    /\ captured_data' = Classify(WithScreenshots(1), FALSE)
    /\ pc' = "reanalyze"
    /\ i' = 1
    /\ UNCHANGED <<flags, cur, disk, processed_results, failed, retry_results,
                   skipped_failures, hist, faults>>

\* One iteration of the loop of lines 218-249.  The call of line 225 passes
\* progress= and task_id=, which analyze_competitor_from_screenshots
\* (main.py:374-377) does not take: binding the arguments raises TypeError
\* before either pass starts, and lines 228-236 record the failure.
ReanalyzeAttempt ==
    /\ prog = "reanalyze" /\ pc = "reanalyze" /\ i <= Len(captured_data)
    /\ LET c == captured_data[i].site
       IN  /\ results' = Append(results, Failure(c, "TypeError", ""))
           /\ last' = [site |-> c, phase |-> "reanalyze",
                       skip |-> (~force_observe) /\ obsFile[c].kind # "absent"]
    /\ i' = i + 1
    /\ UNCHANGED <<flags, pc, cur, disk, captured_data, processed_results,
                   failed, retry_results, skipped_failures, capCalls, obsCalls,
                   scoreCalls, capturedOk, blockedSeen, faults, slept,
                   minuteTokens>>

\* Lines 256-267: reports are generated from results.
FinishReanalyze ==
    /\ prog = "reanalyze" /\ pc = "reanalyze" /\ i = Len(captured_data) + 1
    /\ pc' = "done"
    /\ UNCHANGED <<flags, i, cur, disk, lists, hist, faults>>

\* ------------------------------------------------ a direct call
MaxDirectCalls == 2

\* analyze_competitor_from_screenshots called by itself with a capture_data
\* of the caller's making (tests/test_claude_analyzer.py:253-338):
\* with or without 'competitor_paths', '_skip_observe' set either way.
DirectCall ==
    /\ prog = "direct" /\ pc = "call" /\ i <= MaxDirectCalls
    /\ \E pathKnown \in BOOLEAN, skip \in BOOLEAN,
          obsOut \in ModelAnswers, scoreOut \in ModelAnswers, pace \in Paces :
         LET c == 1
             a == Attempt(c, "direct", pathKnown, skip, obsFile[c], anaFile[c],
                          obsOut, scoreOut, obsCalls[c], scoreCalls[c])
         IN  /\ Spend(Failures(obsOut, scoreOut))
             /\ minuteTokens' = Budgeted(minuteTokens, 0,
                                         pace, a.observeCalled, a.scoreCalled)
             /\ results' = Append(results, a.out)
             /\ obsFile' = [obsFile EXCEPT ![c] = a.obsFile]
             /\ anaFile' = [anaFile EXCEPT ![c] = a.anaFile]
             /\ obsCalls' = [obsCalls EXCEPT ![c] =
                               IF a.observeCalled THEN @ + 1 ELSE @]
             /\ scoreCalls' = [scoreCalls EXCEPT ![c] =
                                 IF a.scoreCalled THEN @ + 1 ELSE @]
             /\ last' = a.log
    /\ slept' = 0
    /\ i' = i + 1
    /\ UNCHANGED <<flags, pc, cur, shots, captured_data, processed_results,
                   failed, retry_results, skipped_failures, capCalls,
                   capturedOk, blockedSeen>>

\* ------------------------------------------------------------ Next
Next ==
    \/ CaptureCall
    \/ OperatorAnswer
    \/ BeginAnalysis
    \/ AnalyzeCompetitor
    \/ FinishAnalysis
    \/ Interrupt
    \/ RetryPrompt
    \/ RetryCompetitor
    \/ FinishRetry
    \/ ReanalyzeClassify
    \/ ReanalyzeAttempt
    \/ FinishReanalyze
    \/ DirectCall

Spec == Init /\ [][Next]_vars

\* The steps the program takes by itself.  The others wait at input() for
\* the operator: the capture of interactive mode (screenshot_capture.py:481),
\* the "Continue?" prompt (main.py:187), the retry prompt (main.py:264) and
\* Ctrl-C.  The timeout handed to capture_with_interaction is shown in the
\* panel (screenshot_capture.py:475) and used nowhere else, so no step ends
\* a wait for the operator.
ProgramSteps ==
    \/ CaptureCall /\ manual_mode
    \/ BeginAnalysis
    \/ AnalyzeCompetitor
    \/ FinishAnalysis
    \/ RetryCompetitor
    \/ FinishRetry

\* The run under a scheduler that lets the program go on whenever it can.
LiveSpec == Spec /\ WF_vars(ProgramSteps)

\* ------------------------------------------------ setup of a run
\* The start of main() for --urls: one name per URL, one folder per name.
\* A URL is its host, a sequence of labels, and its path; a label is a
\* sequence of characters.
WWW == <<"w", "w", "w">>
COM == <<"c", "o", "m">>
UK == <<"u", "k">>
AB == <<"a", "b">>
Hosts ==
    { <<WWW, AB, COM>>, <<AB, UK>>, <<<<"m">>, <<"A", "b">>, COM>>,
      <<<<"b", "a">>, COM>>, <<<<"a", "_", "b">>, COM>>, <<<<"-">>, COM>> }
Paths == {"/basket", "/cart"}
Urls == { [host |-> h, path |-> p] : h \in Hosts, p \in Paths }

\* audit_organizer.py:756: www., m., shop., store., secure.
Prefixes ==
    { WWW, <<"m">>, <<"s", "h", "o", "p">>, <<"s", "t", "o", "r", "e">>,
      <<"s", "e", "c", "u", "r", "e">> }

\* str.lower() on the characters in use.
Lower(ch) == IF ch = "A" THEN "a" ELSE ch

\* audit_organizer.py:767: the characters [a-z0-9-] in use.
Kept == {"a", "b", "c", "k", "m", "o", "u", "w", "-"}

\* re.sub(r"[^a-z0-9-]", "", name.lower()).
RECURSIVE Sanitize(_)
Sanitize(label) ==
    IF label = <<>> THEN <<>>
    ELSE LET ch == Lower(Head(label))
         IN  IF ch \in Kept THEN <<ch>> \o Sanitize(Tail(label))
             ELSE Sanitize(Tail(label))

\* name.strip("-").
RECURSIVE StripHyphens(_)
StripHyphens(label) ==
    IF label = <<>> THEN <<>>
    ELSE IF Head(label) = "-" THEN StripHyphens(Tail(label))
    ELSE IF label[Len(label)] = "-"
         THEN StripHyphens(SubSeq(label, 1, Len(label) - 1))
    ELSE label

\* audit_organizer.py:734-776.  One leading prefix label goes when a dot
\* follows it, the first label left is sanitized, and an empty name becomes
\* "competitor".
extract_competitor_name(url) ==
    LET hostname == IF Len(url.host) > 1 /\ Head(url.host) \in Prefixes
                    THEN Tail(url.host) ELSE url.host
        name == StripHyphens(Sanitize(Head(hostname)))
    IN  IF name # <<>> THEN name
        ELSE <<"c", "o", "m", "p", "e", "t", "i", "t", "o", "r">>

\* A run is started for an analysis type on a day.
AnalysisTypes == {"basket_pages", "product_pages"}
MaxDay == 2
Runs == [analysis_type : AnalysisTypes, audit_date : 1..MaxDay]
MaxRuns == 2

\* The run in progress.
audit_run == audit_runs[Len(audit_runs)]

\* audit_organizer.py:98-100: output/<type with '-' for '_'>.
get_type_dir(analysis_type) ==
    <<"output", IF analysis_type = "basket_pages" THEN "basket-pages"
                ELSE "product-pages">>

\* audit_organizer.py:835-836: 'audit_root' is the type directory.
audit_root(run) == get_type_dir(run.analysis_type)

\* audit_organizer.py:818.
screenshots_base(run) ==
    get_type_dir(run.analysis_type) \o <<"screenshots", run.audit_date>>

\* audit_organizer.py:825: comp_root = screenshots_base / comp_name.
comp_root(comp_name) == screenshots_base(audit_run) \o <<comp_name>>

\* audit_organizer.py:901-924.
get_comparison_report_path(root) == root \o <<"_comparison_report.md">>
get_audit_summary_path(root) == root \o <<"_audit_summary.json">>

\* main.py:563-568: the folder a competitor of the list is given.
competitor_paths(k) == audit_structure[competitors[k].name]

\* The command line holds NumCompetitors distinct URLs.
SetupInit ==
    /\ prog = "setup"
    /\ pc = "parse"
    /\ i = 1
    /\ args_urls \in { us \in [1..NumCompetitors -> Urls] :
                          \A j, k \in 1..NumCompetitors :
                              j # k => us[j] # us[k] }
    /\ competitors = <<>>
    /\ audit_structure = [n \in {} |-> n]
    /\ debug_malformed_json = {}
    /\ audit_runs \in { <<r>> : r \in Runs }
    /\ report_files = [f \in {} |-> f]
    /\ manual_mode = FALSE /\ force = FALSE /\ force_observe = FALSE
    /\ cur = <<>>
    /\ shots = [c \in Competitors |-> {}]
    /\ obsFile = [c \in Competitors |-> [kind |-> "absent", id |-> 0]]
    /\ anaFile = [c \in Competitors |-> NoAnalysis]
    /\ captured_data = <<>>
    /\ processed_results = <<>>
    /\ results = <<>>
    /\ failed = <<>>
    /\ retry_results = <<>>
    /\ skipped_failures = <<>>
    /\ capCalls = [c \in Competitors |-> 0]
    /\ obsCalls = [c \in Competitors |-> 0]
    /\ scoreCalls = [c \in Competitors |-> 0]
    /\ capturedOk = [c \in Competitors |-> FALSE]
    /\ blockedSeen = [c \in Competitors |-> "none"]
    /\ last = NoAttempt
    /\ faults = 0
    /\ slept = 0
    /\ minuteTokens = 0

\* main.py:890-897: one pass of the loop over args.urls.
ParseUrl ==
    /\ prog = "setup" /\ pc = "parse"
    /\ competitors' =
           Append(competitors,
                  [name |-> extract_competitor_name(args_urls[i]),
                   url |-> args_urls[i]])
    /\ IF i < NumCompetitors
       THEN i' = i + 1 /\ pc' = pc
       ELSE i' = 1 /\ pc' = "mkdir"
    /\ UNCHANGED <<prog, manual_mode, force, force_observe, args_urls,
                   audit_structure, debug_malformed_json, audit_runs,
                   report_files, cur, disk, lists, hist, faults>>

\* audit_organizer.py:823-833: one pass of the loop over the competitors;
\* mkdir(exist_ok=True) and the dict assignment both accept a name met before.
CreateCompetitorFolder ==
    /\ prog = "setup" /\ pc = "mkdir"
    /\ LET comp_name == competitors[i].name
       IN  audit_structure' =
               [n \in DOMAIN audit_structure \cup {comp_name} |->
                    IF n = comp_name THEN comp_root(comp_name)
                    ELSE audit_structure[n]]
    /\ IF i < NumCompetitors
       THEN i' = i + 1 /\ pc' = pc
       ELSE i' = 1 /\ pc' = "ready"
    /\ UNCHANGED <<prog, manual_mode, force, force_observe, args_urls,
                   competitors, debug_malformed_json, audit_runs,
                   report_files, cur, disk, lists, hist, faults>>

\* main.py:695-742, generate_reports: the comparison report and the audit
\* summary are written under audit_structure['audit_root'], open(..., 'w')
\* replacing what is there.
WriteReports ==
    /\ prog = "setup" /\ pc = "ready"
    /\ LET written == { get_comparison_report_path(audit_root(audit_run)),
                        get_audit_summary_path(audit_root(audit_run)) }
       IN  report_files' =
               [f \in DOMAIN report_files \cup written |->
                    IF f \in written THEN audit_run ELSE report_files[f]]
    /\ pc' = "reported"
    /\ UNCHANGED <<prog, manual_mode, force, force_observe, args_urls,
                   competitors, audit_structure, debug_malformed_json,
                   audit_runs, i, cur, disk, lists, hist, faults>>

\* The program is started again, on the same day or a later one, with the
\* same command line.
NextRun ==
    /\ prog = "setup" /\ pc = "reported" /\ Len(audit_runs) < MaxRuns
    /\ \E r \in Runs :
         /\ r.audit_date >= audit_run.audit_date
         /\ audit_runs' = Append(audit_runs, r)
    /\ pc' = "parse"
    /\ i' = 1
    /\ competitors' = <<>>
    /\ audit_structure' = [n \in {} |-> n]
    /\ UNCHANGED <<prog, manual_mode, force, force_observe, args_urls,
                   debug_malformed_json, report_files, cur, disk, lists, hist,
                   faults>>

SetupNext ==
    \/ ParseUrl
    \/ CreateCompetitorFolder
    \/ WriteReports
    \/ NextRun

SetupSpec == SetupInit /\ [][SetupNext]_vars

\* ------------------------------------------------ the model collaborator
\* The two calls of ClaudeUXAnalyzer on their own, by what the model sent
\* back: a JSON object, JSON of another type, or text json.loads rejects
\* (a reply cut at max_tokens is of this kind).
Responses == {"object", "array", "truncated"}

MaxAnalyzerCalls == 3

\* What a call returns and leaves behind.
CallResult(site, call, response, success, raw, written) ==
    [site |-> site, phase |-> call, response |-> response,
     success |-> success, raw_response |-> raw, diagnostics |-> written]

\* claude_analyzer.py:346-379.  json.loads failing gives the failure with
\* raw_response (372-377); a value that is no dict fails at the item
\* assignment of line 367 and ends in the bare failure of 378-379.  No file
\* is written on any path.
observe_screenshots(site, response) ==
    IF response = "object"
    THEN CallResult(site, "observe", response, TRUE, FALSE, FALSE)
    ELSE CallResult(site, "observe", response, FALSE,
                    response = "truncated", FALSE)

\* What an observation can flag.
NotableStates == {"subscription pre-selected", "promo code field hidden"}

\* The observation argument of analyze_screenshots: None, or a dict with
\* the keys it has and the entries of its notable_states.
NoObservation == [given |-> FALSE, keys |-> {}, notable_states |-> {}]
Dict(keys, notable) == [given |-> TRUE, keys |-> keys, notable_states |-> notable]
Observations ==
    {NoObservation, Dict({}, {}), Dict({"page_type"}, {})}
        \cup { Dict({"page_type", "notable_states"}, n) : n \in SUBSET NotableStates }

\* "if observation:" (claude_analyzer.py:68, 481): None and the empty dict
\* are both false.
Truthy(observation) == observation.given /\ observation.keys # {}

\* claude_analyzer.py:66-90: the prompt of pass 2 lists every entry of the
\* observation's notable_states, or "(none flagged)"; without an
\* observation the section is left out.
notable_text(observation) ==
    IF ~Truthy(observation) THEN {}
    ELSE IF observation.notable_states # {} THEN observation.notable_states
    ELSE {"(none flagged)"}

\* claude_analyzer.py:481-500: the content of the request, one image item
\* per screenshot file that exists unless the observation stands in.
content(observation, files) ==
    [text |-> 1,
     image |-> IF Truthy(observation) THEN 0 ELSE Cardinality(files)]

\* claude_analyzer.py:502-579.  json.loads failing writes the reply to
\* output/debug_malformed_json (532-546) before the failure with
\* raw_response (557-573); a value that is no dict fails at the item
\* assignment of line 549 and ends in the bare failure of 575-579.
\* The reply of a successful call is returned as the model wrote it: of the
\* notable states the prompt listed, those it cites as evidence of a
\* criterion or among its key_findings are the ones the reply addressed
\* (549-555; nothing compares the reply with the observation).
analyze_screenshots(site, response, observation, addressed, files) ==
    LET listed == notable_text(observation)
        r == IF response = "object"
             THEN CallResult(site, "score", response, TRUE, FALSE, FALSE)
             ELSE CallResult(site, "score", response, FALSE,
                             response = "truncated", response = "truncated")
    IN  [site |-> r.site, phase |-> r.phase, response |-> r.response,
         success |-> r.success, raw_response |-> r.raw_response,
         diagnostics |-> r.diagnostics,
         notable_states |-> observation.notable_states,
         observation |-> observation,
         content |-> content(observation, files),
         listed |-> listed,
         addressed |-> IF r.success THEN addressed \cap listed ELSE {}]

AnalyzerInit ==
    /\ prog = "analyzer"
    /\ pc = "call"
    /\ i = 1
    /\ last = NoAttempt
    /\ debug_malformed_json = {}
    /\ audit_runs = <<>>
    /\ report_files = [f \in {} |-> f]
    /\ args_urls = <<>>
    /\ competitors = <<>>
    /\ audit_structure = [n \in {} |-> n]
    /\ manual_mode = FALSE /\ force = FALSE /\ force_observe = FALSE
    /\ cur = <<>>
    /\ shots = [c \in Competitors |-> Viewports]
    /\ obsFile = [c \in Competitors |-> [kind |-> "absent", id |-> 0]]
    /\ anaFile = [c \in Competitors |-> NoAnalysis]
    /\ captured_data = <<>>
    /\ processed_results = <<>>
    /\ results = <<>>
    /\ failed = <<>>
    /\ retry_results = <<>>
    /\ skipped_failures = <<>>
    /\ capCalls = [c \in Competitors |-> 0]
    /\ obsCalls = [c \in Competitors |-> 0]
    /\ scoreCalls = [c \in Competitors |-> 0]
    /\ capturedOk = [c \in Competitors |-> FALSE]
    /\ blockedSeen = [c \in Competitors |-> "none"]
    /\ faults = 0
    /\ slept = 0
    /\ minuteTokens = 0

\* One call of _observe_screenshots.
ObserveCall ==
    /\ prog = "analyzer" /\ pc = "call" /\ i <= MaxAnalyzerCalls
    /\ \E c \in Competitors, response \in Responses :
         /\ last' = observe_screenshots(c, response)
         /\ obsCalls' = [obsCalls EXCEPT ![c] = @ + 1]
    /\ i' = i + 1
    /\ UNCHANGED <<flags, pc, cur, disk, lists, capCalls, scoreCalls,
                   capturedOk, blockedSeen, slept, minuteTokens, faults>>

\* One call of analyze_screenshots.
ScoreCall ==
    /\ prog = "analyzer" /\ pc = "call" /\ i <= MaxAnalyzerCalls
    /\ \E c \in Competitors, response \in Responses,
          observation \in Observations, addressed \in SUBSET NotableStates :
         LET r == analyze_screenshots(c, response, observation, addressed,
                                      shots[c])
         IN  /\ last' = r
             /\ scoreCalls' = [scoreCalls EXCEPT ![c] = @ + 1]
             /\ debug_malformed_json' =
                    IF r.diagnostics THEN debug_malformed_json \cup {c}
                    ELSE debug_malformed_json
    /\ i' = i + 1
    /\ UNCHANGED <<prog, manual_mode, force, force_observe, args_urls,
                   competitors, audit_structure, audit_runs, report_files,
                   pc, cur, disk, lists, capCalls, obsCalls, capturedOk,
                   blockedSeen, slept, minuteTokens, faults>>

AnalyzerNext ==
    \/ ObserveCall
    \/ ScoreCall

AnalyzerSpec == AnalyzerInit /\ [][AnalyzerNext]_vars

\* ------------------------------------------------------------ the summary
\* main.py:1018-1019 and audit_organizer.py:958-960.
successful_analyses == Len(SelectSeqBy(results, TRUE))
failed_analyses == Len(SelectSeqBy(results, FALSE))
total_competitors == NumCompetitors

\* ------------------------------------------------------------ properties
\* How many outcomes of rs belong to competitor c.
CountFor(rs, c) == Cardinality({ k \in DOMAIN rs : rs[k].site = c })

CapturedFine(c) ==
    \E k \in DOMAIN captured_data :
        captured_data[k].site = c /\ captured_data[k].success

\* analyze_competitors has returned to main() without a cancellation.
Returned == prog = "main" /\ pc = "done"

\* main.py:1016-1033 and 729-735: _audit_summary.json is written from the
\* returned outcomes, straight after analyze_competitors returns; the
\* handler of main.py:1069-1072 writes nothing.
NoSummary == [written |-> FALSE]
audit_summary ==
    IF Returned
    THEN [written |-> TRUE,
          total_competitors |-> total_competitors,
          successful_analyses |-> successful_analyses,
          failed_analyses |-> failed_analyses]
    ELSE NoSummary

\* The main analysis pass of a run that is not cancelled is over.
AnalysisOver == prog = "main" /\ pc \in {"retry_prompt", "retry", "done"}

\* The latest step was a call of analyze_competitor_from_screenshots.
IsAttempt == last.phase \in {"main", "retry", "direct"}

\* ... for a competitor whose observation.json has a place: every attempt of
\* a run, and a direct call that names the competitor's folder.
HasCachePlace ==
    \/ last.phase \in {"main", "retry"}
    \/ last.phase = "direct" /\ last.pathKnown

\* C1: when a run that was not cancelled has returned, with or without a
\* retry phase, the outcome list holds exactly one outcome per competitor,
\* and the summary's successful and failed counts add up to the number of
\* competitors.
OneOutcomePerCompetitor ==
    Returned =>
        /\ \A c \in Competitors : CountFor(results, c) = 1
        /\ Len(results) = NumCompetitors
        /\ successful_analyses + failed_analyses = total_competitors

\* A run has returned after an accepted retry that re-analysed one failed
\* competitor and left another, without screenshots, as it was.
ReturnedAfterRetry ==
    Returned /\ retry_results # <<>> /\ skipped_failures # <<>>

\* C2: once the analysis pass of a run that is not cancelled is over, every
\* competitor was captured and has one capture outcome, every captured
\* competitor was analysed and has one analysis outcome, each outcome sits
\* with the competitor it belongs to whatever became of the others, and a
\* returned run has an outcome for all of them.
FailureStaysLocal ==
    AnalysisOver =>
        /\ \A c \in Competitors :
             /\ capCalls[c] >= 1
             /\ CountFor(captured_data, c) = 1
             /\ CapturedFine(c) => CountFor(processed_results, c) = 1
             /\ ~CapturedFine(c) => CountFor(processed_results, c) = 0
             /\ pc = "done" => CountFor(results, c) = 1
        /\ Len(processed_results) = Len(successful_captures)
        /\ \A k \in DOMAIN processed_results :
             processed_results[k].site = successful_captures[k].site

\* The first competitor analysed failed in the model call, the next one was
\* still analysed, with success.
LaterCompetitorAnalysed ==
    /\ AnalysisOver
    /\ Len(processed_results) >= 2
    /\ ~processed_results[1].success
    /\ processed_results[2].success
    /\ obsCalls[processed_results[2].site] + scoreCalls[processed_results[2].site] > 0

\* C3: whenever the capture collaborator found a bot block for a competitor,
\* the competitor's capture outcome is a failure marked blocked that carries
\* the same reason; it is neither a generic failure nor a success.
BlockedIsReported ==
    prog = "main" =>
        \A k \in DOMAIN captured_data :
            LET r == captured_data[k] IN
            blockedSeen[r.site] # "none" =>
                /\ ~r.success
                /\ r.blocked
                /\ r.error = <<"Site blocked by bot detection: ", blockedSeen[r.site]>>

\* C4: in every analysis attempt the cached observation is used, and the
\* observation pass skipped, exactly if observation.json exists and no
\* refresh was forced; on such a hit the observation collaborator is not
\* called and a successful outcome carries the same observation; otherwise
\* the pass runs and, when it succeeds, the cache is overwritten.
CacheDecidesObservation ==
    (IsAttempt /\ HasCachePlace /\ last.cache.kind \in {"absent", "ok"}) =>
        LET hit == last.cache.kind = "ok" /\ last.skip IN
        /\ last.usedCache <=> hit
        /\ hit => /\ ~last.observeCalled
                  /\ last.success => /\ last.obsId = last.cache.id
                                     /\ last.observation_file = ObservationPath
        /\ ~hit => /\ last.observeCalled
                   /\ last.observeOk => last.saved

\* C5: an attempt that finds an observation.json it cannot turn into an
\* observation treats it as absent and runs the observation pass.
BadCacheIsAbsent ==
    (IsAttempt /\ last.pathKnown /\ last.skip
        /\ last.cache.kind \in {"malformed", "nondict", "undecodable"}) =>
        /\ ~last.usedCache
        /\ last.observeCalled

\* C6, as the code has it: every attempt that obtains an observation calls
\* the scoring collaborator, whether or not analysis.json exists; and
\* reanalyze_audit, unless forced, takes a competitor's stored analysis.json
\* as its outcome without any attempt.
ScoredInEveryAttempt ==
    /\ (IsAttempt /\ last.obtained) => last.scoreCalled
    /\ (prog = "reanalyze" /\ pc \in {"reanalyze", "done"}) =>
         \A c \in Competitors :
             (shots[c] # {} /\ anaFile[c].present /\ ~force) =>
                 /\ \E k \in DOMAIN results : results[k] = ExistingAnalysis(c)
                 /\ scoreCalls[c] = 0

\* An attempt of a run found analysis.json in place, obtained an observation
\* and called the scoring collaborator.
ScoredOverStoredAnalysis ==
    /\ last.phase = "main"
    /\ last.anaBefore
    /\ last.obtained
    /\ last.scoreCalled

\* C6: a stored score is never re-used: every attempt that obtains an
\* observation calls the scoring collaborator, and a re-analysis of an
\* existing run root has no successful outcome without a scoring call.
StoredScoreNeverReused ==
    /\ (IsAttempt /\ last.obtained) => last.scoreCalled
    /\ prog = "reanalyze" =>
         \A k \in DOMAIN results :
             results[k].success => scoreCalls[results[k].site] > 0

\* C7: every successful outcome of a run, of the main pass or of the retry
\* phase, carries an observation reference.
SuccessHasObservationRef ==
    prog = "main" =>
        \A rs \in {processed_results, retry_results, results} :
            \A k \in DOMAIN rs :
                rs[k].success => rs[k].observation_file # "none"

\* C8: the observation and scoring collaborators are called for a competitor
\* only if a viewport capture of this run succeeded for it.
AnalysedOnlyIfCaptured ==
    prog = "main" =>
        \A c \in Competitors :
            (obsCalls[c] > 0 \/ scoreCalls[c] > 0) => capturedOk[c]

\* What C9 asks of one step of the retry phase.
RetryFrame ==
    (prog = "main" /\ pc = "retry") =>
        /\ capCalls' = capCalls
        /\ (pc' = "retry" /\ i <= Len(failed)
              /\ ~(Viewports \subseteq shots[failed[i].site])) =>
               /\ obsCalls' = obsCalls
               /\ scoreCalls' = scoreCalls
               /\ skipped_failures' = Append(skipped_failures, failed[i])
        /\ pc' = "done" =>
               \A k \in DOMAIN skipped_failures :
                   \E j \in DOMAIN results' : results'[j] = skipped_failures[k]

\* C9: no step of the retry phase calls the capture collaborator; a failed
\* competitor whose screenshot files are absent costs no model call, and its
\* failure record is in the returned list as it was.
RetryKeepsAbsentFailures == [][RetryFrame]_vars

\* An accepted retry has returned a failure it could not re-analyse, and no
\* model call was made for that competitor in the whole run.
AbsentFailureReturned ==
    /\ Returned
    /\ skipped_failures # <<>>
    /\ \A k \in DOMAIN skipped_failures :
           /\ \E j \in DOMAIN results : results[j] = skipped_failures[k]
           /\ obsCalls[skipped_failures[k].site] = 0
           /\ scoreCalls[skipped_failures[k].site] = 0

\* C10: an attempt of the retry phase that finds a valid observation.json
\* loads it and does not call the observation collaborator, and an
\* observation it produces afresh is saved to observation.json.
RetryRespectsCache ==
    last.phase = "retry" =>
        /\ last.cache.kind = "ok" => (last.usedCache /\ ~last.observeCalled)
        /\ last.observeOk => last.saved

\* C11: the retry loop handles the failed competitors one after the other,
\* one per step, and the delay slept between two consecutive retry attempts is
\* the delay slept between two analyses of the main pass.
RetriesSerialWithSameDelay ==
    /\ (prog = "main" /\ pc = "retry") =>
           Len(retry_results) + Len(skipped_failures) = i - 1
    /\ (last.phase = "retry" /\ Len(retry_results) >= 2) =>
           slept = ANALYSIS_DELAY

\* C12: the delay between two analyses is at least cost_per_call /
\* quota_per_minute (in seconds: delay * quota >= cost * 60), and the
\* max_tokens of the model calls a run issues within any one minute, main
\* pass and retry phase, stay within the quota.
DelayKeepsQuota ==
    /\ ANALYSIS_DELAY * QUOTA_PER_MINUTE >= MAX_TOKENS_SCORE * 60
    /\ prog = "main" => minuteTokens <= QUOTA_PER_MINUTE

\* The scenario of C13 after the main pass: three competitors, the bot check
\* fired for exactly one (a), exactly one other (c) failed in its scoring call,
\* the third was analysed with success.
Blocked == { a \in Competitors : blockedSeen[a] # "none" }
ScoringFailed ==
    { c \in Competitors :
        \E k \in DOMAIN processed_results :
            processed_results[k] = Failure(c, "scoring error", "") }
CleanlyAnalysed ==
    { b \in Competitors :
        \E k \in DOMAIN processed_results :
            processed_results[k].site = b /\ processed_results[k].success }
Scenario ==
    /\ AnalysisOver
    /\ NumCompetitors = 3
    /\ Cardinality(Blocked) = 1
    /\ Cardinality(ScoringFailed) = 1
    /\ Cardinality(CleanlyAnalysed \ Blocked) = 1
    /\ Blocked \cap ScoringFailed = {}

\* The retry prompt was declined / accepted (an accepted retry leaves every
\* failure in one of its two lists).
Declined == pc = "done" /\ retry_results = <<>> /\ skipped_failures = <<>>
AcceptedAndSucceeded ==
    /\ pc = "done"
    /\ retry_results # <<>>
    /\ \A k \in DOMAIN retry_results : retry_results[k].success

\* The bot-checked competitor of the scenario ended its capture as a failure.
BlockedFailed ==
    \E a \in Blocked :
        \E k \in DOMAIN captured_data :
            captured_data[k].site = a /\ ~captured_data[k].success

ResultsInCompetitorOrder ==
    Returned =>
        \A j \in DOMAIN results, k \in DOMAIN results :
            j < k => results[j].site < results[k].site

\* C15: in a run, a model call for a competitor is made only after its
\* capture has finished and the capture phase is over; in every attempt the
\* scoring call is made only once an observation, fresh or cached, is there,
\* and never when the observation pass of the attempt failed.
OrderedTransitions ==
    /\ prog = "main" =>
           \A c \in Competitors :
               (obsCalls[c] > 0 \/ scoreCalls[c] > 0) =>
                   /\ capCalls[c] >= 1
                   /\ pc \notin {"capture", "prompt"}
    /\ IsAttempt =>
           /\ last.scoreCalled => last.obtained
           /\ (last.observeCalled /\ ~last.observeOk) => ~last.scoreCalled

\* An attempt of a run whose observation pass failed ended without a scoring
\* call.
ObservationFailedUnscored ==
    /\ last.phase = "main"
    /\ capCalls[last.site] >= 1
    /\ last.observeCalled
    /\ ~last.observeOk
    /\ ~last.scoreCalled
    /\ scoreCalls[last.site] = 0

\* C16: an interrupt (Ctrl-C or EOF) at an operator prompt of the capture
\* phase ends the capture of every later competitor, and the cancelled run
\* has a run summary.
InterruptLeavesRunRecord ==
    /\ (prog = "main" /\ pc = "cancelled") => audit_summary.written
    /\ \A k \in DOMAIN captured_data :
           captured_data[k].error = <<"EOFError", "">> =>
               \A c \in Competitors :
                   c > captured_data[k].site => capCalls[c] = 0

\* C17: once the folders of a run are made, competitors with distinct URLs
\* have distinct folders.
DistinctCompetitorsDistinctFolders ==
    (prog = "setup" /\ pc = "ready") =>
        \A j, k \in DOMAIN competitors :
            competitors[j].url # competitors[k].url =>
                competitor_paths(j) # competitor_paths(k)

\* C18: a call of the model collaborator whose reply does not parse into a
\* JSON object, be it the observation call or the scoring call, returns a
\* failure and has written the reply to the diagnostics folder.
UnparsedReplyFailsAndIsKept ==
    (prog = "analyzer" /\ last.phase \in {"observe", "score"}
                       /\ last.response # "object") =>
        /\ ~last.success
        /\ last.diagnostics
        /\ last.phase = "score" => last.site \in debug_malformed_json

\* C19: after a scoring call that succeeded, every notable state of the
\* observation it was given is addressed by the score result, as evidence
\* of a criterion or as a finding.
NotableStatesReachScore ==
    (prog = "analyzer" /\ last.phase = "score" /\ last.success) =>
        last.notable_states \subseteq last.addressed

\* C20: after a successful attempt that was given the competitor's paths,
\* the result names the observation by the bare file name and carries the
\* competitor's root, and analysis.json holds the bare file name and no
\* competitor root.
ObservationFileIsBareName ==
    (IsAttempt /\ last.success /\ last.pathKnown) =>
        /\ last.observation_file = "observation.json"
        /\ last.competitor_root = "comp_root"
        /\ anaFile[last.site].present
        /\ anaFile[last.site].observation_file = "observation.json"
        /\ anaFile[last.site].competitor_root = "none"

\* C21: a scoring call that is given an observation sends one text item
\* and no image item; a request with an image item belongs to a call that
\* was given no observation.
ObservationMeansTextOnly ==
    (prog = "analyzer" /\ last.phase = "score") =>
        /\ last.observation.given => last.content = [text |-> 1, image |-> 0]
        /\ last.content.image > 0 => ~last.observation.given

\* What C22 asks of one step.
ForceObserveFrame ==
    \A c \in Competitors :
        /\ obsFile[c].kind # "absent" => obsFile'[c].kind # "absent"
        /\ obsFile'[c] # obsFile[c] =>
               /\ last'.site = c
               /\ last'.observeOk
               /\ obsFile'[c].kind = "ok"

\* C22: no step deletes an observation.json; the file changes only in an
\* attempt whose observation pass succeeded, so a forced refresh whose pass
\* fails leaves it as it was.
ForceObserveKeepsFile == [][ForceObserveFrame]_vars

\* A forced refresh over a valid observation.json has replaced it with the
\* observation of its own successful pass.
ForcedRefreshReplaced ==
    /\ IsAttempt
    /\ ~last.skip
    /\ last.pathKnown
    /\ last.cache.kind = "ok"
    /\ last.observeOk
    /\ obsFile[last.site] = [kind |-> "ok", id |-> last.obsId]
    /\ obsFile[last.site] # last.cache

\* A forced refresh over a valid observation.json whose pass failed has left
\* the file as it found it.
ForcedRefreshFailedKept ==
    /\ IsAttempt
    /\ ~last.skip
    /\ last.cache.kind = "ok"
    /\ last.observeCalled
    /\ ~last.observeOk
    /\ obsFile[last.site] = last.cache

\* C23: in a run over folders an earlier run left, every attempt that
\* finds a valid observation.json reuses it without an observation call,
\* and after every successful attempt the competitor's folder holds both an
\* observation.json and an analysis.json.
RerunReusesAndRegenerates ==
    (prog = "main" /\ IsAttempt) =>
        /\ last.cache.kind = "ok" => (last.usedCache /\ ~last.observeCalled)
        /\ last.success =>
               /\ obsFile[last.site].kind # "absent"
               /\ anaFile[last.site].present

\* C24: an accepted retry leaves out of the re-analysis only a failed
\* competitor of which no screenshot exists, neither in its folder nor
\* among the captures of the run.
RetryUsesAnyScreenshot ==
    (prog = "main" /\ pc \in {"retry", "done"}) =>
        \A k \in DOMAIN skipped_failures :
            /\ shots[skipped_failures[k].site] = {}
            /\ ~capturedOk[skipped_failures[k].site]

\* What C25 asks of the step that answers the retry prompt.
RetryPromptFrame ==
    (prog = "main" /\ pc = "retry_prompt") =>
        /\ pc' \in {"retry", "done"}
        /\ obsCalls' = obsCalls
        /\ scoreCalls' = scoreCalls
        /\ pc' = "done" =>
               /\ results' = results
               /\ successful_analyses' = successful_analyses
               /\ failed_analyses' = failed_analyses
               /\ audit_summary'.written

\* C25: the answer to the retry prompt costs no model call and never
\* cancels the run; unless the retry is accepted the outcome list and its
\* counts stay as they were and the run goes on to its summary.
DeclinedRetryChangesNothing == [][RetryPromptFrame]_vars

\* The retry was offered and not accepted: the run has returned with its
\* failures and nothing was retried or skipped.
RetryDeclined ==
    /\ Returned
    /\ failed # <<>>
    /\ results # <<>>
    /\ retry_results = <<>>
    /\ skipped_failures = <<>>
    /\ audit_summary.failed_analyses = Len(failed)

\* C26: of two runs of one analysis type on different days that have
\* written their reports, each has its own summary and comparison paths,
\* and the earlier run's files still are as it wrote them.
ReportsKeyedByDate ==
    \A j, k \in DOMAIN audit_runs :
        (/\ j < k
         /\ audit_runs[j].analysis_type = audit_runs[k].analysis_type
         /\ audit_runs[j].audit_date # audit_runs[k].audit_date
         /\ k < Len(audit_runs) \/ pc = "reported") =>
            /\ get_audit_summary_path(audit_root(audit_runs[j]))
                   # get_audit_summary_path(audit_root(audit_runs[k]))
            /\ get_comparison_report_path(audit_root(audit_runs[j]))
                   # get_comparison_report_path(audit_root(audit_runs[k]))
            /\ report_files[get_audit_summary_path(audit_root(audit_runs[j]))]
                   = audit_runs[j]

\* The outcome a step has appended to captured_data.
Appended == captured_data'[Len(captured_data')]

\* What C27 asks of one step of the capture phase.
CapturePromptFrame ==
    (prog = "main" /\ pc \in {"capture", "prompt"}) =>
        /\ manual_mode =>
               /\ pc' # "prompt"
               /\ \A c \in Competitors : capCalls'[c] <= 1
        /\ pc' = "prompt" => SelectResults(cur', TRUE) # <<>>
        /\ (pc = "capture" /\ ~manual_mode
              /\ Len(captured_data') > Len(captured_data)) =>
               /\ Appended = CaptureFailure(i, SingleFailure)
               /\ capCalls'[i] = capCalls[i] + 1
        /\ pc = "prompt" =>
               /\ capCalls' = capCalls
               /\ Len(captured_data') > Len(captured_data) =>
                      /\ Appended \in {CaptureSuccess(i), SkippedByUser(i),
                                       Failure(i, "EOFError", "")}
                      /\ pc' = "capture" /\ i' = i + 1
               /\ (pc' = "capture" /\ captured_data' = captured_data) =>
                      /\ i' = i
                      /\ capCalls[i] >= 1

\* C27: in interactive mode a capture becomes a success of the run only by
\* the operator's answer to the prompt, which is shown only after a capture
\* with a successful viewport; the answers never capture by themselves,
\* retry sends the same competitor back to capture, skip ends it as
\* skipped, and manual mode loads once and never prompts.
CapturedOnlyOnConfirmation == [][CapturePromptFrame]_vars

\* The operator asked for a retry of a competitor's capture and then
\* confirmed the second capture.
ConfirmedAfterRetry ==
    /\ prog = "main" /\ ~manual_mode
    /\ \E k \in DOMAIN captured_data :
           /\ captured_data[k].success
           /\ capCalls[captured_data[k].site] >= 2

\* C28: in interactive mode the capture of every competitor comes to an
\* end whether or not the operator answers.
OperatorWaitEnds ==
    \A c \in Competitors :
        (prog = "main" /\ ~manual_mode /\ pc \in {"capture", "prompt"} /\ i = c)
            ~> (pc \notin {"capture", "prompt"} \/ i # c)

\* C29: a competitor the operator skipped at the capture prompt gets no
\* model call in the run, and the run returns its skipped outcome.
SkippedStaysSkipped ==
    prog = "main" =>
        \A k \in DOMAIN captured_data :
            captured_data[k].skipped =>
                /\ obsCalls[captured_data[k].site] = 0
                /\ scoreCalls[captured_data[k].site] = 0
                /\ Returned =>
                       \E j \in DOMAIN results : results[j] = captured_data[k]

\* What C30 asks of one step of a run.
SingleRetryFrame ==
    prog = "main" =>
        /\ \A c \in Competitors : obsCalls'[c] <= 2 /\ scoreCalls'[c] <= 2
        /\ pc \in {"retry", "done"} => pc' \in {"retry", "done", "cancelled"}
        /\ pc = "done" => pc' = "done"
        /\ pc = "retry" =>
               Len(retry_results') + Len(skipped_failures') <= Len(failed)

\* C30: a run makes at most two observation calls and two scoring calls per
\* competitor; the retry loop takes every failed competitor at most once
\* and is not followed by another prompt, analysis or retry.
AtMostOneRetry == [][SingleRetryFrame]_vars

\* A competitor was scored in the main pass and in the retry, failed both
\* times, and the run has returned with its failure.
FailedAgainAndReturned ==
    /\ Returned
    /\ \E c \in Competitors :
           /\ scoreCalls[c] = 2
           /\ \E j \in DOMAIN results :
                  results[j].site = c /\ ~results[j].success

====
